---- MODULE Spec2Model ----
(***************************************************************************)
(* A model of the API gateway handlers: the delegated-session handlers     *)
(* (Login, Logout, GetSession), which call the internal identity provider, *)
(* and the reverse-proxy handlers (path resolution, header forwarding,     *)
(* service lookup).                                                        *)
(*                                                                         *)
(* Every handler is one action: the action draws the inbound request and   *)
(* what the environment answers (the upstream's status, cookies and body,  *)
(* the outcome of each fallible library call) and records what the handler *)
(* did: the outbound calls it issued, the cookies it set on the response   *)
(* writer and the responses it wrote.                                      *)
(***************************************************************************)
EXTENDS Integers, Sequences, FiniteSets, TLC

VARIABLES
    config,      \* the gateway configuration, fixed after startup
    route,       \* the registered proxy route: its service and path template
    handler,     \* the handler that served the last request ("none" at start)
    req,         \* the inbound request of the last handled request
    env,         \* outcomes of the fallible local library calls of that request
    up,          \* what the identity provider answered (if it was called)
    calls,       \* outbound calls issued while handling the request, in order
    setCookies,  \* cookies written to the response writer (http.SetCookie), in order
    user,        \* the user object of the response body (<<>> if it has none)
    written,     \* responses written for the request (c.JSON), in order
    pin,         \* the inbound request of the last proxied request
    backend,     \* outbound requests issued to a backend for it, in order
    answer,      \* what the backend did with the outbound request (if issued)
    relayed,     \* the backend response as relayed to the client (if relayed)
    origin,      \* the headers of the request as it first entered a gateway
    hops,        \* how many gateways the request has passed through before
    inflight,    \* the calls of a ProxyToService handler that are in progress
    userPreferences,    \* SettingsHandler.userPreferences: <<>> for no entry
    userPreferencesMu,  \* its RWMutex: the readers and the writer holding it
    committed,   \* history: per user, what the last Update to unlock stored
                 \* and what the last Update to return stored
    settingsCalls \* the calls of the settings handlers that are in progress

authVars == <<req, env, up, calls, setCookies, user>>

proxyVars == <<pin, backend, answer, relayed, origin, hops>>

concVars ==
    <<inflight, userPreferences, userPreferencesMu, committed, settingsCalls>>

vars == <<config, route, handler, req, env, up, calls, setCookies, user, written,
          pin, backend, answer, relayed, origin, hops, inflight,
          userPreferences, userPreferencesMu, committed, settingsCalls>>

----------------------------------------------------------------------------
(* Bounds of the model. *)

\* the identity provider sends at most this many Set-Cookie headers
MaxCookies == 2

\* an inbound header carries at most this many values
MaxValues == 2

\* a request passes through at most this many further gateways
MaxHops == 2

\* a path template has at most this many segments
MaxSegments == 3

\* an HTML body is made of at most this many fragments
MaxFragments == 3

\* at most this many requests are inside one handler at the same time
MaxInflight == 2

----------------------------------------------------------------------------
(* HTTP status codes used by the handlers. *)

StatusOK == 200
StatusBadRequest == 400
StatusUnauthorized == 401
StatusNotFound == 404
StatusInternalServerError == 500
StatusNotImplemented == 501
StatusBadGateway == 502
StatusServiceUnavailable == 503

\* statuses the identity provider answers with in the model
UpstreamStatuses ==
    {StatusOK, StatusUnauthorized, StatusInternalServerError,
     StatusServiceUnavailable}

----------------------------------------------------------------------------
(* Sequences helpers. *)

\* strings.Index(s, ch) for a one-character needle: 0-based index, or -1
RECURSIVE IndexFrom(_, _, _)
IndexFrom(s, ch, i) ==
    IF i > Len(s) THEN -1
    ELSE IF s[i] = ch THEN i - 1
    ELSE IndexFrom(s, ch, i + 1)

Index(s, ch) == IndexFrom(s, ch, 1)

\* every sequence over S of length at most n
SeqUpTo(S, n) == UNION {[1..k -> S] : k \in 0..n}

\* the sequence of f(s[i])
MapSeq(s, f(_)) == [i \in 1..Len(s) |-> f(s[i])]

----------------------------------------------------------------------------
(* Configuration: config.Authelia.* *)

SessionCookieName == "authelia_session"
SessionDomain == "gateway.example"

\* the named backends of the routing table
ServiceNames == {"hr-service", "frontend", "bugsink"}

\* upstream base URLs: not configured, a URL, and text url.Parse rejects
URLNone == ""
URLGood == "http://backend:8001"
URLBad == "http://bad host"

ServiceURLs == {URLNone, URLGood, URLBad}

\* the identity provider's internal base URL: a URL, and an address without
\* a scheme, which url.Parse rejects
URLAuth == "http://authelia:9091"
URLNoScheme == "127.0.0.1:9091"

\* url.Parse(u): whether it succeeds, and target.Host
ParseOK(u) == u \notin {URLBad, URLNoScheme}
HostOf(u) ==
    IF u = URLGood THEN "backend:8001"
    ELSE IF u = URLAuth THEN "authelia:9091"
    ELSE ""

AllConfigured == [n \in ServiceNames |-> URLGood]

\* InternalURLValid: config.Authelia.InternalURL + path parses as a URL, so
\* http.NewRequestWithContext succeeds ("127.0.0.1:9091" does not parse).
\* services: the upstream base URL of each named backend.
\* InternalURL: config.Authelia.InternalURL itself.
Config(valid, services) ==
    [InternalURLValid |-> valid,
     InternalURL |-> IF valid THEN URLAuth ELSE URLNoScheme,
     services |-> services]

AuthConfigs == {Config(v, AllConfigured) : v \in BOOLEAN}

ServiceConfigs == {Config(TRUE, sv) : sv \in [ServiceNames -> ServiceURLs]}

\* the same routing tables with no identity provider configured: the empty
\* base URL plus a path still parses
UnconfiguredAuthConfigs ==
    {[cfg EXCEPT !.InternalURL = URLNone] : cfg \in ServiceConfigs}

\* getServiceURL: the configured upstream base URL of a named backend
getServiceURL(cfg, name) == cfg.services[name]

----------------------------------------------------------------------------
(* Cookies: net/http.Cookie, the fields the handlers read or write. *)

Cookie(name, value, domain, path, maxAge, httpOnly, secure, sameSite) ==
    [Name |-> name, Value |-> value, Domain |-> domain, Path |-> path,
     MaxAge |-> maxAge, HttpOnly |-> httpOnly, Secure |-> secure,
     SameSite |-> sameSite]

\* Set-Cookie headers the identity provider may send
UpstreamCookies ==
    { Cookie(SessionCookieName, "sid1", "authelia.internal", "/api", 0, FALSE, TRUE, "Strict"),
      Cookie(SessionCookieName, "sid2", "", "", 3600, TRUE, FALSE, "None"),
      Cookie("csrf", "tok", "authelia.internal", "/api", 0, FALSE, TRUE, "Strict"),
      Cookie("lang", "en", "", "", 3600, TRUE, FALSE, "") }

\* the cookie written by clearSessionCookie
ClearMutantDeletedValue(tls) ==
    Cookie(SessionCookieName, "deleted", SessionDomain, "/", -1, TRUE, tls, "Lax")

clearSessionCookie(tls) ==
    Cookie(SessionCookieName, "", SessionDomain, "/", -1, TRUE, tls, "Lax")

\* handleLoginResponse's loop body: the session cookie is re-attributed,
\* every other cookie is passed on as it came
ForwardMutantAllCookies(cookie, tls) ==
    [cookie EXCEPT !.Domain = SessionDomain, !.Path = "/", !.HttpOnly = TRUE,
                   !.Secure = tls, !.SameSite = "Lax"]

forwardLoginCookie(cookie, tls) ==
    IF cookie.Name = SessionCookieName
    THEN [cookie EXCEPT !.Domain = SessionDomain, !.Path = "/", !.HttpOnly = TRUE,
                        !.Secure = tls, !.SameSite = "Lax"]
    ELSE cookie

----------------------------------------------------------------------------
(* Structured error responses. *)

\* by: "gateway" for a response the gateway made itself (c.JSON), "upstream"
\* for a backend's response relayed to the browser
\* details: the body carries the text of the error that caused it
\* ("details": err.Error())
Response(status, code) ==
    [status |-> status, code |-> code, by |-> "gateway", details |-> FALSE]

Relayed(status) ==
    [status |-> status, code |-> "", by |-> "upstream", details |-> FALSE]

\* a success response carries no error code
Success == Response(StatusOK, "")

sendInternalError == Response(StatusInternalServerError, "INTERNAL_ERROR")
sendUnauthorizedError == Response(StatusUnauthorized, "UNAUTHORIZED")
sendBadGatewayError == Response(StatusBadGateway, "AUTH_SERVICE_UNAVAILABLE")
sendInvalidCredentialsError == Response(StatusUnauthorized, "INVALID_CREDENTIALS")
sendInvalidRequestError == Response(StatusBadRequest, "INVALID_REQUEST")
sendAuthServiceError == Response(StatusInternalServerError, "AUTH_SERVICE_ERROR")

----------------------------------------------------------------------------
(* Inbound requests and environment outcomes. *)

\* e-mail addresses accepted by the binding `required,email`, as characters
Emails == { <<"a", "d", "@", "x">>, <<"b", "@", "y">> }

NoEmail == <<>>

\* bodyOK: c.ShouldBindJSON succeeded; hasCookie: the session cookie is present
\* password, keepMeLoggedIn, targetURL: the other fields of the login body
Request(bodyOK, email, tls, hasCookie) ==
    [bodyOK |-> bodyOK, email |-> email, tls |-> tls, hasCookie |-> hasCookie,
     password |-> "", keepMeLoggedIn |-> FALSE, targetURL |-> ""]

NoRequest == Request(FALSE, NoEmail, FALSE, FALSE)

LoginRequests ==
    {Request(FALSE, NoEmail, tls, FALSE) : tls \in BOOLEAN}
        \cup {[Request(TRUE, e, tls, FALSE)
                   EXCEPT !.password = "pw", !.keepMeLoggedIn = k,
                          !.targetURL = t] :
                  e \in Emails, tls \in BOOLEAN, k \in BOOLEAN,
                  t \in {"", "https://app.example/"}}

CookieRequests ==
    {Request(FALSE, NoEmail, tls, hc) : tls \in BOOLEAN, hc \in BOOLEAN}

\* marshalOK: json.Marshal succeeded; signOK: token.SignedString succeeded
Env(marshalOK, signOK) == [marshalOK |-> marshalOK, signOK |-> signOK]

NoEnv == Env(TRUE, TRUE)

Envs == {Env(m, s) : m \in BOOLEAN, s \in BOOLEAN}

\* What h.client.Do and the reading of the body give:
\*   err     client.Do returned an error (connection refused, timeout, cancel)
\*   status  resp.StatusCode
\*   cookies resp.Cookies()
\*   readOK  io.ReadAll(resp.Body) succeeded
\*   jsonOK  json.Unmarshal(body, ...) succeeded
\*   user    the user object of the body (<<>> if it has none)
\*   cancelled  the error of client.Do is the request context's: the browser
\*              went away or the deadline passed while the call was in flight
Upstream(err, status, cookies, readOK, jsonOK) ==
    [err |-> err, status |-> status, cookies |-> cookies, readOK |-> readOK,
     jsonOK |-> jsonOK, cancelled |-> FALSE, user |-> <<>>]

NoUpstream == Upstream(TRUE, 0, <<>>, FALSE, FALSE)

\* the call was made with c.Request.Context() and that context ended
CancelledCall == [NoUpstream EXCEPT !.cancelled = TRUE]

\* a user object: AutheliaLoginResponse.User
User(username, name, email, groups) ==
    [username |-> username, name |-> name, email |-> email, groups |-> groups]

\* the account the identity provider authenticated, as its body describes it
UpstreamUsers ==
    {<<>>, <<User(<<"a", "d">>, <<"A", "d">>, <<"a", "d", "@", "c">>,
                  <<"admins">>)>>}

UpstreamAnswers ==
    {[Upstream(FALSE, s, cs, b[1], b[2]) EXCEPT !.user = w] :
        s \in UpstreamStatuses,
        cs \in SeqUpTo(UpstreamCookies, MaxCookies),
        b \in {<<FALSE, FALSE>>, <<TRUE, FALSE>>, <<TRUE, TRUE>>},
        w \in UpstreamUsers}

UpstreamOutcomes == {NoUpstream, CancelledCall} \cup UpstreamAnswers

\* an outbound call to the identity provider
Call(method, path, cookie, username) ==
    [method |-> method, path |-> path, cookie |-> cookie, username |-> username,
     password |-> "", keepMeLoggedIn |-> FALSE, targetURL |-> ""]

\* the first-factor call: autheliaFirstFactorRequest as the JSON body
FirstFactorCall(username, r) ==
    [Call("POST", "/api/firstfactor", <<>>, username)
         EXCEPT !.password = r.password, !.keepMeLoggedIn = r.keepMeLoggedIn,
                !.targetURL = r.targetURL]

\* the session cookie forwarded on a call: its value if the browser sent it
ForwardedCookie(r) == IF r.hasCookie THEN <<"sid0">> ELSE <<>>

----------------------------------------------------------------------------
(* What a handler did: the calls issued, the cookies set, the responses.   *)

Outcome(cs, ck, ws) ==
    [calls |-> cs, setCookies |-> ck, written |-> ws, user |-> <<>>]

----------------------------------------------------------------------------
(* Logout (authelia_logout.go) *)

\* a logout that reports the failed call, tries again and then succeeds
LogoutMutantRetry(cfg, r, u) ==
    IF ~cfg.InternalURLValid
    THEN Outcome(<<>>, <<>>, <<sendInternalError>>)
    ELSE LET call == Call("POST", "/api/logout", ForwardedCookie(r), <<>>)
         IN IF u.err
            THEN Outcome(<<call, call>>, <<clearSessionCookie(r.tls)>>,
                         <<sendBadGatewayError, Success>>)
            ELSE Outcome(<<call>>,
                         Append(u.cookies, clearSessionCookie(r.tls)),
                         <<Success>>)

LogoutOutcome(cfg, r, u) ==
    IF ~cfg.InternalURLValid
    THEN Outcome(<<>>, <<>>, <<sendInternalError>>)
    ELSE LET call == Call("POST", "/api/logout", ForwardedCookie(r), <<>>)
         IN IF u.err
            THEN Outcome(<<call>>, <<clearSessionCookie(r.tls)>>, <<Success>>)
            ELSE Outcome(<<call>>,
                         Append(u.cookies, clearSessionCookie(r.tls)),
                         <<Success>>)

----------------------------------------------------------------------------
(* GetSession (unnamed/part_005) *)

GetSessionOutcome(cfg, r, u) ==
    IF ~cfg.InternalURLValid
    THEN Outcome(<<>>, <<>>, <<sendInternalError>>)
    ELSE IF ~r.hasCookie
    THEN Outcome(<<>>, <<>>, <<sendUnauthorizedError>>)
    ELSE LET call == Call("GET", "/api/user/info", ForwardedCookie(r), <<>>)
         IN IF u.err THEN Outcome(<<call>>, <<>>, <<sendBadGatewayError>>)
            ELSE IF ~u.readOK THEN Outcome(<<call>>, <<>>, <<sendInternalError>>)
            ELSE IF u.status # StatusOK
                 THEN Outcome(<<call>>, <<>>, <<sendUnauthorizedError>>)
            ELSE IF ~u.jsonOK THEN Outcome(<<call>>, <<>>, <<sendInternalError>>)
            ELSE [Outcome(<<call>>, <<>>, <<Success>>) EXCEPT !.user = u.user]

----------------------------------------------------------------------------
(* Login, the token-issuing version (unnamed/part_000) *)

\* username := the part of the e-mail before its first "@", if that is not empty
UsernameOf(email) ==
    LET idx == Index(email, "@")
    IN IF idx > 0 THEN SubSeq(email, 1, idx) ELSE email

\* the cookies handleLoginResponse forwards on a 200
ForwardedLoginCookies(cookies, tls) ==
    [i \in 1..Len(cookies) |-> forwardLoginCookie(cookies[i], tls)]

\* handleLoginResponse: the cookies it sets and the response it writes
handleLoginResponse(r, e, u) ==
    IF u.status = StatusOK
    THEN IF ~e.signOK
         THEN [setCookies |-> ForwardedLoginCookies(u.cookies, r.tls),
               written |-> <<sendInternalError>>, user |-> <<>>]
         ELSE [setCookies |-> ForwardedLoginCookies(u.cookies, r.tls),
               written |-> <<Success>>,
               user |-> <<User(UsernameOf(r.email), UsernameOf(r.email),
                               r.email, <<"user">>)>>]
    ELSE IF u.status = StatusUnauthorized
    THEN [setCookies |-> <<>>, written |-> <<sendInvalidCredentialsError>>,
          user |-> <<>>]
    ELSE [setCookies |-> <<>>, written |-> <<sendAuthServiceError>>,
          user |-> <<>>]

LoginOutcome(cfg, r, e, u) ==
    IF ~r.bodyOK THEN Outcome(<<>>, <<>>, <<sendInvalidRequestError>>)
    ELSE IF ~e.marshalOK THEN Outcome(<<>>, <<>>, <<sendInternalError>>)
    ELSE IF ~cfg.InternalURLValid THEN Outcome(<<>>, <<>>, <<sendInternalError>>)
    ELSE LET call == FirstFactorCall(UsernameOf(r.email), r)
         IN IF u.err THEN Outcome(<<call>>, <<>>, <<sendBadGatewayError>>)
            ELSE IF ~u.readOK THEN Outcome(<<call>>, <<>>, <<sendInternalError>>)
            ELSE IF ~u.jsonOK THEN Outcome(<<call>>, <<>>, <<sendInternalError>>)
            ELSE LET h == handleLoginResponse(r, e, u)
                 IN [Outcome(<<call>>, h.setCookies, h.written)
                         EXCEPT !.user = h.user]

----------------------------------------------------------------------------
(* Login, the delegation-only version (unnamed/part_001) *)

handleLoginResponseDelegated(r, u) ==
    IF u.status = StatusOK
    THEN [setCookies |-> ForwardedLoginCookies(u.cookies, r.tls),
          written |-> <<Success>>,
          user |-> <<User(<<>>, <<>>, r.email, <<>>)>>]
    ELSE IF u.status = StatusUnauthorized
    THEN [setCookies |-> <<>>, written |-> <<sendInvalidCredentialsError>>,
          user |-> <<>>]
    ELSE [setCookies |-> <<>>, written |-> <<sendAuthServiceError>>,
          user |-> <<>>]

LoginDelegatedOutcome(cfg, r, e, u) ==
    IF ~r.bodyOK THEN Outcome(<<>>, <<>>, <<sendInvalidRequestError>>)
    ELSE IF ~e.marshalOK THEN Outcome(<<>>, <<>>, <<sendInternalError>>)
    ELSE IF ~cfg.InternalURLValid THEN Outcome(<<>>, <<>>, <<sendInternalError>>)
    ELSE LET call == FirstFactorCall(r.email, r)
         IN IF u.err THEN Outcome(<<call>>, <<>>, <<sendBadGatewayError>>)
            ELSE IF ~u.readOK THEN Outcome(<<call>>, <<>>, <<sendInternalError>>)
            ELSE IF ~u.jsonOK THEN Outcome(<<call>>, <<>>, <<sendInternalError>>)
            ELSE LET h == handleLoginResponseDelegated(r, u)
                 IN [Outcome(<<call>>, h.setCookies, h.written)
                         EXCEPT !.user = h.user]

----------------------------------------------------------------------------
(* Strings, as sequences of characters (package strings). *)

\* strings.HasPrefix
HasPrefix(s, p) == Len(s) >= Len(p) /\ SubSeq(s, 1, Len(p)) = p

\* s[i:], i counted from 0
From(s, i) == SubSeq(s, i + 1, Len(s))

\* strings.Index(s, sub): the 0-based index of the first sub in s, or -1
RECURSIVE IndexSubFrom(_, _, _)
IndexSubFrom(s, sub, i) ==
    IF i + Len(sub) > Len(s) THEN -1
    ELSE IF SubSeq(s, i + 1, i + Len(sub)) = sub THEN i
    ELSE IndexSubFrom(s, sub, i + 1)

IndexSub(s, sub) == IndexSubFrom(s, sub, 0)

\* strings.Contains
Contains(s, sub) == IndexSub(s, sub) >= 0

\* strings.Replace(s, old, new, n) for a non-empty old: the first n
\* occurrences, from the left and not overlapping; all of them if n < 0
RECURSIVE Replace(_, _, _, _)
Replace(s, old, new, n) ==
    LET idx == IndexSub(s, old)
    IN IF n = 0 \/ idx < 0 THEN s
       ELSE SubSeq(s, 1, idx) \o new
                \o Replace(From(s, idx + Len(old)), old, new, n - 1)

\* the segments of a path: the text between its slashes
RECURSIVE Segments(_)
Segments(s) ==
    LET idx == Index(s, "/")
    IN IF idx < 0 THEN <<s>>
       ELSE <<SubSeq(s, 1, idx)>> \o Segments(From(s, idx + 1))

\* "/" + seg1 + "/" + seg2 ...
RECURSIVE PathOf(_)
PathOf(segs) ==
    IF segs = <<>> THEN <<>>
    ELSE <<"/">> \o Head(segs) \o PathOf(Tail(segs))

PlaceholderId == <<":", "i", "d">>

ApiPrefix == <<"/", "a", "p", "i", "/">>

RootPath == <<"/">>

----------------------------------------------------------------------------
(* Headers: http.Header, a map from a name to its values in order; a name  *)
(* with no values is absent.                                               *)

HeaderNames ==
    {"X-Foo", "Accept-Encoding", "Upgrade", "X-Forwarded-For",
     "X-Forwarded-Proto", "X-Real-IP", "X-Forwarded-Host", "X-User-ID",
     "X-User-Email"}

EmptyHeader == [k \in HeaderNames |-> <<>>]

\* Header.Set, Header.Add, Header.Del
HSet(h, k, v) == [h EXCEPT ![k] = <<v>>]
HAdd(h, k, v) == [h EXCEPT ![k] = Append(@, v)]
HDel(h, k) == [h EXCEPT ![k] = <<>>]

\* Header.Add of each value in turn
RECURSIVE HAddAll(_, _, _)
HAddAll(h, k, values) ==
    IF values = <<>> THEN h
    ELSE HAddAll(HAdd(h, k, Head(values)), k, Tail(values))

\* the body of the copy loop for one header name: Set the first value, Add
\* the others
CopyMutantAddOnly(out, k, values) ==
    IF Len(values) > 0 THEN HAddAll(out, k, values) ELSE out

copyHeader(out, k, values) ==
    IF Len(values) > 0
    THEN HAddAll(HSet(out, k, values[1]), k, Tail(values))
    ELSE out

\* the copy loop over the inbound headers, the names in skip left out; the
\* names are copied independently, so the map's iteration order is immaterial
RECURSIVE CopyNames(_, _, _)
CopyNames(out, in, names) ==
    IF names = {} THEN out
    ELSE LET k == CHOOSE x \in names : TRUE
         IN CopyNames(copyHeader(out, k, in[k]), in, names \ {k})

forwardHeaders(out, in, skip) == CopyNames(out, in, HeaderNames \ skip)

----------------------------------------------------------------------------
(* Proxied requests. *)

\* The gin context of a proxied request:
\*   path, rawQuery, host, header, tls   c.Request
\*   id, pathParam                       c.Param("id"), c.Param("path")
\*   clientIP                            c.ClientIP()
\*   userID, email                       c.Get("user_id"), c.Get("email"):
\*                                       <<>> if not set, else <<value>>
\*   readOK                              io.ReadAll(c.Request.Body) succeeds
\*   buildOK                             http.NewRequest succeeds
ProxyRequest(path, header, id, clientIP, userID, email) ==
    [path |-> path, rawQuery |-> "q=1", host |-> "gw.example",
     header |-> header, tls |-> FALSE, id |-> id, pathParam |-> <<>>,
     clientIP |-> clientIP, userID |-> userID, email |-> email,
     readOK |-> TRUE, buildOK |-> TRUE]

NoProxyRequest == ProxyRequest(<<>>, EmptyHeader, <<>>, "", <<>>, <<>>)

\* an outbound request to a backend
BackendRequest(target, path, rawQuery, host, header) ==
    [target |-> target, path |-> path, rawQuery |-> rawQuery, host |-> host,
     header |-> header]

\* what the backend does with it: a network failure, or an answer
\*   neterr          the round trip failed
\*   status          the status of the answer
\*   location        its Location header, <<>> if absent
\*   contentType     its Content-Type header, as a sequence of tokens
\*   body, readOK    its body, and whether it can be read to the end
BackendOutcome(neterr, status) ==
    [neterr |-> neterr, status |-> status, location |-> <<>>,
     contentType |-> <<>>, body |-> <<>>, readOK |-> TRUE]

\* no backend was contacted
NoAnswer == BackendOutcome(FALSE, 0)

BackendOutcomes ==
    {BackendOutcome(TRUE, 0), BackendOutcome(FALSE, StatusOK),
     BackendOutcome(FALSE, StatusNotFound)}

\* what a proxy handler did: the backend requests issued, the responses
\* written, the backend's answer and the response relayed from it
ProxyOutcome(bs, ws) ==
    [backend |-> bs, written |-> ws, answer |-> NoAnswer, relayed |-> <<>>]

\* the relayed response: its Location and Content-Length headers, the
\* response's ContentLength field and its body
RelayedResponse(location, contentLengthHeader, contentLength, body) ==
    [location |-> location, contentLengthHeader |-> contentLengthHeader,
     contentLength |-> contentLength, body |-> body]

\* the answer passed on as the backend sent it
Unmodified(b) == RelayedResponse(b.location, Len(b.body), Len(b.body), b.body)

\* the legacy error body {"error": "<text>"} carries no code
LegacyError(status) == Response(status, "")

NotFoundError == Response(StatusNotFound, "NOT_FOUND")

\* the ErrorHandler's answer: {"error": ..., "details": err.Error()}
ErrorHandlerResponse ==
    [LegacyError(StatusBadGateway) EXCEPT !.details = TRUE]

\* one round trip to the backend: a network failure is answered with 502
\* {"error": "Failed to reach service"}, the backend's answer is relayed
\* otherwise
RoundTrip(out, b) ==
    IF b.neterr
    THEN [ProxyOutcome(<<out>>, <<LegacyError(StatusBadGateway)>>)
              EXCEPT !.answer = b]
    ELSE [ProxyOutcome(<<out>>, <<Relayed(b.status)>>)
              EXCEPT !.answer = b, !.relayed = <<Unmodified(b)>>]

\* the peer address of the connection the request arrived on
RemoteIP == "10.0.0.9"

\* a comma-separated X-Forwarded-For value is the list of its addresses
RECURSIVE JoinValues(_)
JoinValues(values) ==
    IF values = <<>> THEN <<>> ELSE Head(values) \o JoinValues(Tail(values))

\* httputil.ReverseProxy.ServeHTTP after the director: the hop-by-hop header
\* Upgrade is removed (no Connection header asks for an upgrade), the peer
\* address is appended to X-Forwarded-For, then one round trip; a network
\* failure goes to the ErrorHandler
ServeHTTP(out, b) ==
    LET h1 == HDel(out.header, "Upgrade")
        h2 == HSet(h1, "X-Forwarded-For",
                   JoinValues(h1["X-Forwarded-For"]) \o <<RemoteIP>>)
        o == RoundTrip([out EXCEPT !.header = h2], b)
    IN IF b.neterr THEN [o EXCEPT !.written = <<ErrorHandlerResponse>>]
       ELSE o

----------------------------------------------------------------------------
(* proxyRequest (proxy.go) *)

\* the target path: the first ":id" replaced by the id parameter
resolvePath(targetPath, id) ==
    IF Contains(targetPath, PlaceholderId)
    THEN Replace(targetPath, PlaceholderId, id, 1)
    ELSE targetPath

\* X-Forwarded-For, X-Forwarded-Proto, X-Real-IP
setForwardingHeaders(h, c) ==
    HSet(HSet(HSet(h, "X-Forwarded-For", <<c.clientIP>>),
              "X-Forwarded-Proto", "http"),
         "X-Real-IP", c.clientIP)

\* X-User-ID and X-User-Email from the auth middleware's context values
setIdentityHeaders(h, c) ==
    LET h1 == IF c.userID # <<>> /\ c.userID[1] # ""
              THEN HSet(h, "X-User-ID", c.userID[1]) ELSE h
    IN IF c.email # <<>> /\ c.email[1] # ""
       THEN HSet(h1, "X-User-Email", c.email[1]) ELSE h1

\* the director: the outbound request starts as a clone of the inbound one
DirectorMutantKeepHost(c, targetURL, targetPath) ==
    BackendRequest(targetURL, resolvePath(targetPath, c.id), c.rawQuery,
                   c.host,
                   setIdentityHeaders(
                       setForwardingHeaders(
                           forwardHeaders(c.header, c.header, {}), c), c))

proxyRequestDirector(c, targetURL, targetPath) ==
    BackendRequest(targetURL, resolvePath(targetPath, c.id), c.rawQuery,
                   HostOf(targetURL),
                   setIdentityHeaders(
                       setForwardingHeaders(
                           forwardHeaders(c.header, c.header, {}), c), c))

proxyRequest(c, targetURL, targetPath, b) ==
    IF ~ParseOK(targetURL)
    THEN ProxyOutcome(<<>>, <<LegacyError(StatusInternalServerError)>>)
    ELSE ServeHTTP(proxyRequestDirector(c, targetURL, targetPath), b)

\* ProxyToService and ProxyToExternalService
ServiceMutantNoCheck(cfg, serviceName, targetPath, c, b) ==
    proxyRequest(c, getServiceURL(cfg, serviceName), targetPath, b)

ProxyToServiceOutcome(cfg, serviceName, targetPath, c, b) ==
    IF getServiceURL(cfg, serviceName) = ""
    THEN ProxyOutcome(<<>>, <<LegacyError(StatusServiceUnavailable)>>)
    ELSE proxyRequest(c, getServiceURL(cfg, serviceName), targetPath, b)

ProxyToExternalServiceOutcome(cfg, serviceName, targetPath, c, b) ==
    IF getServiceURL(cfg, serviceName) = ""
    THEN ProxyOutcome(<<>>, <<LegacyError(StatusServiceUnavailable)>>)
    ELSE proxyRequest(c, getServiceURL(cfg, serviceName), targetPath, b)

\* c.GetHeader: the first value, or ""
GetHeader(c, k) == IF c.header[k] = <<>> THEN "" ELSE c.header[k][1]

proxyWebSocket(c, targetURL) ==
    IF ~ParseOK(targetURL)
    THEN ProxyOutcome(<<>>, <<LegacyError(StatusInternalServerError)>>)
    ELSE ProxyOutcome(<<>>, <<LegacyError(StatusNotImplemented)>>)

\* the fallback handler with the /api/ guard after the service lookup
WebSocketMutantLookupFirst(cfg, serviceName, c, b) ==
    IF getServiceURL(cfg, serviceName) = ""
    THEN ProxyOutcome(<<>>, <<LegacyError(StatusServiceUnavailable)>>)
    ELSE IF HasPrefix(c.path, ApiPrefix)
    THEN ProxyOutcome(<<>>, <<NotFoundError>>)
    ELSE IF GetHeader(c, "Upgrade") = "websocket"
    THEN proxyWebSocket(c, getServiceURL(cfg, serviceName))
    ELSE proxyRequest(c, getServiceURL(cfg, serviceName), c.path, b)

ProxyWithWebSocketOutcome(cfg, serviceName, c, b) ==
    IF HasPrefix(c.path, ApiPrefix)
    THEN ProxyOutcome(<<>>, <<NotFoundError>>)
    ELSE IF getServiceURL(cfg, serviceName) = ""
    THEN ProxyOutcome(<<>>, <<LegacyError(StatusServiceUnavailable)>>)
    ELSE IF GetHeader(c, "Upgrade") = "websocket"
    THEN proxyWebSocket(c, getServiceURL(cfg, serviceName))
    ELSE proxyRequest(c, getServiceURL(cfg, serviceName), c.path, b)

\* ProxyToAuthelia: the path parameter under /api/oidc
OidcPath(pathParam) ==
    <<"/", "a", "p", "i", "/", "o", "i", "d", "c">>
        \o (IF pathParam = <<>> THEN RootPath ELSE pathParam)

ProxyToAutheliaOutcome(cfg, c, b) ==
    IF cfg.InternalURL = ""
    THEN ProxyOutcome(<<>>, <<Response(StatusServiceUnavailable,
                                       "AUTH_SERVICE_UNAVAILABLE")>>)
    ELSE proxyRequest(c, cfg.InternalURL, OidcPath(c.pathParam), b)

----------------------------------------------------------------------------
(* proxyRequestWithPathRewrite (proxy_response.go): the request side *)

PathRewriteMutantKeepEncoding(c, targetURL, targetPath) ==
    BackendRequest(targetURL, targetPath, c.rawQuery, HostOf(targetURL),
                   setForwardingHeaders(
                       forwardHeaders(c.header, c.header, {}), c))

pathRewriteDirector(c, targetURL, targetPath) ==
    BackendRequest(targetURL, targetPath, c.rawQuery, HostOf(targetURL),
                   setForwardingHeaders(
                       forwardHeaders(HDel(c.header, "Accept-Encoding"),
                                      c.header, {"Accept-Encoding"}), c))

(* proxyRequestWithPathRewrite: the response side (ModifyResponse) *)

\* strings.ReplaceAll
ReplaceAll(s, old, new) == Replace(s, old, new, -1)

\* action="/   href="/   src="/
ActionPattern == <<"a", "c", "t", "i", "o", "n", "=", "\"", "/">>
HrefPattern == <<"h", "r", "e", "f", "=", "\"", "/">>
SrcPattern == <<"s", "r", "c", "=", "\"", "/">>

\* the pattern with the prefix inserted after the quote
Prefixed(pattern, pathPrefix) ==
    SubSeq(pattern, 1, Len(pattern) - 1) \o pathPrefix \o <<"/">>

\* the Location rewrite: the prefix is prepended to a value that starts with
\* a slash and does not start with the prefix
LocationMutantAlwaysPrepend(location, pathPrefix) ==
    IF location # <<>> /\ HasPrefix(location, <<"/">>)
    THEN pathPrefix \o location
    ELSE location

rewriteLocation(location, pathPrefix) ==
    IF location # <<>> /\ HasPrefix(location, <<"/">>)
           /\ ~HasPrefix(location, pathPrefix)
    THEN pathPrefix \o location
    ELSE location

\* the body rewrite: the three patterns, one after the other
BodyMutantFirstOnly(body, pathPrefix) ==
    Replace(Replace(Replace(body, ActionPattern,
                            Prefixed(ActionPattern, pathPrefix), 1),
                    HrefPattern, Prefixed(HrefPattern, pathPrefix), 1),
            SrcPattern, Prefixed(SrcPattern, pathPrefix), 1)

rewriteBody(body, pathPrefix) ==
    ReplaceAll(ReplaceAll(ReplaceAll(body, ActionPattern,
                                     Prefixed(ActionPattern, pathPrefix)),
                          HrefPattern, Prefixed(HrefPattern, pathPrefix)),
               SrcPattern, Prefixed(SrcPattern, pathPrefix))

\* strings.Contains(contentType, "text/html"), on the tokens of the value
IsHTML(contentType) == Contains(contentType, <<"text/html">>)

\* ModifyResponse: the relayed response, or <<>> when it returns the read
\* error of the body
modifyResponse(b, pathPrefix) ==
    LET location == rewriteLocation(b.location, pathPrefix)
    IN IF ~IsHTML(b.contentType)
       THEN <<RelayedResponse(location, Len(b.body), Len(b.body), b.body)>>
       ELSE IF ~b.readOK THEN <<>>
       ELSE LET newBody == rewriteBody(b.body, pathPrefix)
            IN <<RelayedResponse(location, Len(newBody), Len(newBody),
                                 newBody)>>

\* ServeHTTP with ModifyResponse installed: an error it returns goes to the
\* ErrorHandler, like a network failure
ServeHTTPModified(out, b, pathPrefix) ==
    LET o == ServeHTTP(out, b)
    IN IF b.neterr THEN o
       ELSE IF modifyResponse(b, pathPrefix) = <<>>
       THEN [o EXCEPT !.written = <<ErrorHandlerResponse>>,
                      !.relayed = <<>>]
       ELSE [o EXCEPT !.relayed = modifyResponse(b, pathPrefix)]

proxyRequestWithPathRewrite(c, targetURL, targetPath, pathPrefix, b) ==
    IF ~ParseOK(targetURL)
    THEN ProxyOutcome(<<>>, <<LegacyError(StatusInternalServerError)>>)
    ELSE ServeHTTPModified(pathRewriteDirector(c, targetURL, targetPath), b,
                           pathPrefix)

----------------------------------------------------------------------------
(* ProxyBugsink and DirectProxy (proxy_external.go) *)

BugsinkMutantUpstreamHost(c, targetURL) ==
    BackendRequest(targetURL,
                   IF c.pathParam = <<>> THEN RootPath ELSE c.pathParam,
                   c.rawQuery, HostOf(targetURL),
                   HSet(setForwardingHeaders(
                            forwardHeaders(c.header, c.header, {}), c),
                        "X-Forwarded-Host", HostOf(targetURL)))

bugsinkDirector(c, targetURL) ==
    BackendRequest(targetURL,
                   IF c.pathParam = <<>> THEN RootPath ELSE c.pathParam,
                   c.rawQuery, c.host,
                   HSet(setForwardingHeaders(
                            forwardHeaders(c.header, c.header, {}), c),
                        "X-Forwarded-Host", c.host))

ProxyBugsinkOutcome(cfg, c, b) ==
    IF getServiceURL(cfg, "bugsink") = ""
    THEN ProxyOutcome(<<>>, <<LegacyError(StatusServiceUnavailable)>>)
    ELSE IF ~ParseOK(getServiceURL(cfg, "bugsink"))
    THEN ProxyOutcome(<<>>, <<LegacyError(StatusInternalServerError)>>)
    ELSE ServeHTTP(bugsinkDirector(c, getServiceURL(cfg, "bugsink")), b)

\* the new request carries the copied headers only
DirectProxyOutcome(targetURL, c, b) ==
    IF ~ParseOK(targetURL)
    THEN ProxyOutcome(<<>>, <<LegacyError(StatusInternalServerError)>>)
    ELSE IF ~c.readOK
    THEN ProxyOutcome(<<>>, <<LegacyError(StatusBadRequest)>>)
    ELSE IF ~c.buildOK
    THEN ProxyOutcome(<<>>, <<LegacyError(StatusInternalServerError)>>)
    ELSE RoundTrip(BackendRequest(targetURL, c.path, "", HostOf(targetURL),
                                  forwardHeaders(EmptyHeader, c.header, {})),
                   b)

----------------------------------------------------------------------------
(* The delegated-session handlers as actions. *)

\* the handler `name` served request r in environment e, u with outcome o
Served(name, r, e, u, o) ==
    /\ handler = "none"
    /\ handler' = name
    /\ req' = r
    /\ env' = e
    /\ up' = u
    /\ calls' = o.calls
    /\ setCookies' = o.setCookies
    /\ user' = o.user
    /\ written' = o.written
    /\ UNCHANGED <<config, route, proxyVars, concVars>>

\* the upstream outcome as far as the handler saw it: nothing if no call was made
Seen(o, u) == IF o.calls = <<>> THEN NoUpstream ELSE u

Login ==
    /\ handler = "none"
    /\ \E r \in LoginRequests, e \in Envs, u \in UpstreamOutcomes :
        LET o == LoginOutcome(config, r, e, u)
        IN Served("Login", r, e, Seen(o, u), o)

LoginDelegated ==
    /\ handler = "none"
    /\ \E r \in LoginRequests, m \in BOOLEAN, u \in UpstreamOutcomes :
        LET o == LoginDelegatedOutcome(config, r, Env(m, TRUE), u)
        IN Served("LoginDelegated", r, Env(m, TRUE), Seen(o, u), o)

Logout ==
    /\ handler = "none"
    /\ \E r \in CookieRequests, u \in UpstreamOutcomes :
        LET o == LogoutOutcome(config, r, u)
        IN Served("Logout", r, NoEnv, Seen(o, u), o)

GetSession ==
    /\ handler = "none"
    /\ \E r \in CookieRequests, u \in UpstreamOutcomes :
        LET o == GetSessionOutcome(config, r, u)
        IN Served("GetSession", r, NoEnv, Seen(o, u), o)

\* the request is over (the ProxyContext is discarded): the gateway is ready
\* for the next one
NextRequest ==
    /\ handler # "none"
    /\ handler' = "none"
    /\ req' = NoRequest
    /\ env' = NoEnv
    /\ up' = NoUpstream
    /\ calls' = <<>>
    /\ setCookies' = <<>>
    /\ user' = <<>>
    /\ written' = <<>>
    /\ pin' = NoProxyRequest
    /\ backend' = <<>>
    /\ answer' = NoAnswer
    /\ relayed' = <<>>
    /\ origin' = EmptyHeader
    /\ hops' = 0
    /\ UNCHANGED <<config, route, concVars>>

\* the requests one handler serves at the same time, each in its goroutine
Slots == 1..MaxInflight

\* a call of the handler function: where it is, c.Param("id"), the
\* targetPath variable of its proxyRequest call and the path it sent
InflightCall(pc, id, targetPath, path) ==
    [pc |-> pc, id |-> id, targetPath |-> targetPath, path |-> path]

NoCall == InflightCall("idle", <<>>, <<>>, <<>>)

\* the users the auth middleware knows
Users == {"u1", "u2"}

\* NotificationPreferences (a map from a key to a bool, as its entries):
\* the defaults of GetNotificationSettings, and the bodies a client sends,
\* one of them without preferences
DefaultPreferences ==
    {<<"email", FALSE>>, <<"push", TRUE>>, <<"assignments", FALSE>>,
     <<"skillUpdates", TRUE>>}

SubmittedPreferences == {{}, {<<"email", TRUE>>, <<"push", FALSE>>}}

\* a call of a settings handler:
\*   op, pc     the handler and the statement it is about to execute
\*   userID     c.Get("user_id"): <<>> if not set
\*   body       request.Preferences of an update with a well-formed body
\*   prefs      the map entry read, then the preferences of the response
\*   expect     history: the user's entry of committed at the read
\*   status     the status of the response written, 0 before
SettingsCall(op, pc, userID, body, prefs, expect, status) ==
    [op |-> op, pc |-> pc, userID |-> userID, body |-> body, prefs |-> prefs,
     expect |-> expect, status |-> status]

\* the history before any Update
NoUpdate == [unlocked |-> <<>>, returned |-> <<>>]

NoSettingsCall == SettingsCall("none", "idle", <<>>, {}, <<>>, NoUpdate, 0)

\* no request is being handled
Idle ==
    /\ handler = "none"
    /\ req = NoRequest
    /\ env = NoEnv
    /\ up = NoUpstream
    /\ calls = <<>>
    /\ setCookies = <<>>
    /\ user = <<>>
    /\ written = <<>>
    /\ pin = NoProxyRequest
    /\ backend = <<>>
    /\ answer = NoAnswer
    /\ relayed = <<>>
    /\ origin = EmptyHeader
    /\ hops = 0
    /\ inflight = [s \in Slots |-> NoCall]
    /\ userPreferences = [u \in Users |-> <<>>]
    /\ userPreferencesMu = [readers |-> {}, writer |-> 0]
    /\ committed = [u \in Users |-> NoUpdate]
    /\ settingsCalls = [s \in Slots |-> NoSettingsCall]

\* a route registered at startup: ProxyToService(serviceName, targetPath)
\* the prefix the route is mounted under, for the routes that rewrite paths
PathPrefix == <<"/", "p">>

Route(service, targetPath) ==
    [service |-> service, targetPath |-> targetPath, pathPrefix |-> PathPrefix]

DefaultRoute == Route("hr-service", PathOf(<<<<"u">>, PlaceholderId>>))

InitAuth ==
    /\ config \in AuthConfigs
    /\ route = DefaultRoute
    /\ Idle

NextAuth == Login \/ LoginDelegated \/ Logout \/ GetSession \/ NextRequest

SpecAuth == InitAuth /\ [][NextAuth]_vars

----------------------------------------------------------------------------
(* The proxy handlers as actions. *)

\* the proxy handler `name` served request c with outcome o
ProxyServed(name, c, o) ==
    /\ handler = "none"
    /\ handler' = name
    /\ pin' = c
    /\ origin' = IF hops = 0 THEN c.header ELSE origin
    /\ backend' = o.backend
    /\ answer' = o.answer
    /\ relayed' = o.relayed
    /\ written' = o.written
    /\ UNCHANGED <<config, route, authVars, hops, concVars>>

\* the backend is another gateway: the outbound request is its inbound one
NextHop ==
    /\ handler # "none"
    /\ backend # <<>>
    /\ hops < MaxHops
    /\ handler' = "none"
    /\ pin' = [NoProxyRequest EXCEPT !.header = backend[1].header]
    /\ backend' = <<>>
    /\ answer' = NoAnswer
    /\ relayed' = <<>>
    /\ written' = <<>>
    /\ hops' = hops + 1
    /\ UNCHANGED <<config, route, authVars, origin, concVars>>

ClientIPs == {"10.0.0.1", "10.0.0.2"}

(* Path resolution: every registered template, every id. *)

SegmentKinds == {<<"u">>, PlaceholderId, <<":", "i", "d", "x">>}

Templates == {PathOf(segs) : segs \in SeqUpTo(SegmentKinds, MaxSegments) \ {<<>>}}

\* values gin binds to :id (a path segment: not empty, no slash)
Ids == {<<"7">>, <<"4", "2">>}

PathRequests ==
    {ProxyRequest(PathOf(<<<<"e">>, id>>), EmptyHeader, id, "10.0.0.1", <<>>, <<>>) :
        id \in Ids}

PathProxyToService ==
    /\ handler = "none"
    /\ \E r \in PathRequests, b \in BackendOutcomes :
        ProxyServed("ProxyToService", r,
                    ProxyToServiceOutcome(config, route.service,
                                          route.targetPath, r, b))

InitPath ==
    /\ config = Config(TRUE, AllConfigured)
    /\ route \in {Route("hr-service", t) : t \in Templates}
    /\ Idle

NextPath == PathProxyToService \/ NextRequest

SpecPath == InitPath /\ [][NextPath]_vars

(* Header forwarding: every proxy path, hop after hop. *)

HeaderValues == {"a", "b"}

InboundHeaders ==
    {[EmptyHeader EXCEPT !["X-Foo"] = foo, !["X-Forwarded-For"] = xff,
                         !["Accept-Encoding"] = ae, !["X-User-ID"] = uid,
                         !["X-User-Email"] =
                             IF uid = <<>> THEN <<>> ELSE <<"spoofed@x">>,
                         !["X-Forwarded-Host"] =
                             IF uid = <<>> THEN <<>> ELSE <<"spoofed.example">>] :
        foo \in SeqUpTo(HeaderValues, MaxValues),
        xff \in {<<>>, <<<<"1.1.1.1">>, <<"2.2.2.2">>>>},
        ae \in {<<>>, <<"gzip">>, <<"gzip", "br">>},
        uid \in {<<>>, <<"spoofed">>}}

\* what the gin context holds besides the headers: client address, identity
\* the identity facts of the auth middleware (user_id, email): none, set but
\* empty, set
Identities == {<<<<>>, <<>>>>, <<<<"">>, <<"">>>>, <<<<"u1">>, <<"u1@x">>>>}

\* the Host and the raw query string a client sends: the gateway's public
\* name with a plain query, another name with a query that does not survive
\* re-encoding
HostAndQuery(ip) ==
    IF ip = "10.0.0.1" THEN <<"gw.example", "q=1">>
    ELSE <<"alt.example", "a=1&a=%zz;b">>

HdrContexts ==
    {[ProxyRequest(PathOf(<<<<"e">>>>), EmptyHeader, <<"7">>, ip, who[1], who[2])
          EXCEPT !.tls = tls, !.host = HostAndQuery(ip)[1],
                 !.rawQuery = HostAndQuery(ip)[2]] :
        ip \in ClientIPs, who \in Identities, tls \in BOOLEAN}

\* the requests that can arrive: a client's at the first gateway, afterwards
\* the one the previous gateway sent
HdrRequests ==
    {[c EXCEPT !.header = h] :
        c \in HdrContexts,
        h \in IF hops = 0 THEN InboundHeaders ELSE {pin.header}}

HdrProxyToService ==
    /\ handler = "none"
    /\ \E r \in HdrRequests, b \in BackendOutcomes :
        ProxyServed("ProxyToService", r,
                    ProxyToServiceOutcome(config, route.service,
                                          route.targetPath, r, b))

HdrProxyWithPathRewrite ==
    /\ handler = "none"
    /\ \E r \in HdrRequests, b \in BackendOutcomes :
        ProxyServed("proxyRequestWithPathRewrite", r,
                    proxyRequestWithPathRewrite(
                        r, getServiceURL(config, route.service),
                        route.targetPath, route.pathPrefix, b))

HdrProxyBugsink ==
    /\ handler = "none"
    /\ \E r \in HdrRequests, b \in BackendOutcomes :
        ProxyServed("ProxyBugsink", r, ProxyBugsinkOutcome(config, r, b))

HdrDirectProxy ==
    /\ handler = "none"
    /\ \E r \in HdrRequests, b \in BackendOutcomes, ok \in BOOLEAN \X BOOLEAN :
        LET c == [r EXCEPT !.readOK = ok[1], !.buildOK = ok[2]]
        IN ProxyServed("DirectProxy", c, DirectProxyOutcome(URLGood, c, b))

InitHdr ==
    /\ config = Config(TRUE, AllConfigured)
    /\ route = DefaultRoute
    /\ Idle

NextHdr ==
    \/ HdrProxyToService
    \/ HdrProxyWithPathRewrite
    \/ HdrProxyBugsink
    \/ HdrDirectProxy
    \/ NextHop
    \/ NextRequest

SpecHdr == InitHdr /\ [][NextHdr]_vars

(* Service lookup: every configuration of the routing table. *)

SvcPaths == {PathOf(<<<<"a", "p", "i">>, <<"x">>>>), PathOf(<<<<"x">>>>)}

SvcRequests ==
    {ProxyRequest(p, [EmptyHeader EXCEPT !["Upgrade"] = upg], <<"7">>,
                  "10.0.0.1", <<>>, <<>>) :
        p \in SvcPaths, upg \in {<<>>, <<"websocket">>, <<"WebSocket">>}}

SvcProxyToService ==
    /\ handler = "none"
    /\ \E r \in SvcRequests, b \in BackendOutcomes :
        ProxyServed("ProxyToService", r,
                    ProxyToServiceOutcome(config, route.service,
                                          route.targetPath, r, b))

SvcProxyToExternalService ==
    /\ handler = "none"
    /\ \E r \in SvcRequests, b \in BackendOutcomes :
        ProxyServed("ProxyToExternalService", r,
                    ProxyToExternalServiceOutcome(config, route.service,
                                                  route.targetPath, r, b))

SvcProxyWithWebSocket ==
    /\ handler = "none"
    /\ \E r \in SvcRequests, b \in BackendOutcomes :
        ProxyServed("ProxyWithWebSocket", r,
                    ProxyWithWebSocketOutcome(config, route.service, r, b))

SvcProxyBugsink ==
    /\ handler = "none"
    /\ \E r \in SvcRequests, b \in BackendOutcomes :
        ProxyServed("ProxyBugsink", r, ProxyBugsinkOutcome(config, r, b))

SvcProxyToAuthelia ==
    /\ handler = "none"
    /\ \E r \in SvcRequests, b \in BackendOutcomes :
        ProxyServed("ProxyToAuthelia", r, ProxyToAutheliaOutcome(config, r, b))

InitSvc ==
    /\ config \in ServiceConfigs \cup UnconfiguredAuthConfigs
    /\ route \in {Route(n, DefaultRoute.targetPath) : n \in ServiceNames}
    /\ Idle

NextSvc ==
    \/ SvcProxyToService
    \/ SvcProxyToExternalService
    \/ SvcProxyWithWebSocket
    \/ SvcProxyBugsink
    \/ SvcProxyToAuthelia
    \/ NextRequest

SpecSvc == InitSvc /\ [][NextSvc]_vars

(* Response rewriting: every answer of the backend of a path-rewriting  *)
(* route.                                                              *)

\* pieces of an HTML body
BodyFragments ==
    {ActionPattern, HrefPattern, SrcPattern, <<"p", "/">>, <<"x">>, <<"\"">>}

RECURSIVE Concat(_)
Concat(pieces) ==
    IF pieces = <<>> THEN <<>> ELSE Head(pieces) \o Concat(Tail(pieces))

Bodies == {Concat(pieces) : pieces \in SeqUpTo(BodyFragments, MaxFragments)}

\* Location values: none, absolute paths outside and under the prefix, a
\* path that merely begins with the prefix's characters, a relative path
Locations ==
    {<<>>, <<"/", "d">>, <<"/", "p", "/", "d">>, <<"/", "p", "d">>, <<"d">>}

ContentTypes ==
    {<<>>, <<"text/html">>, <<"text/html", "; charset=utf-8">>,
     <<"application/json">>}

RespAnswers ==
    {BackendOutcome(TRUE, 0)} \cup
    {[BackendOutcome(FALSE, IF loc = <<>> THEN StatusOK ELSE 302)
          EXCEPT !.location = loc, !.contentType = ct, !.body = body,
                 !.readOK = ok] :
        loc \in Locations, ct \in ContentTypes, body \in Bodies,
        ok \in BOOLEAN}

RespProxyWithPathRewrite ==
    /\ handler = "none"
    /\ \E b \in RespAnswers :
        LET r == ProxyRequest(PathOf(<<<<"p">>, <<"x">>>>), EmptyHeader,
                              <<"7">>, "10.0.0.1", <<>>, <<>>)
        IN ProxyServed("proxyRequestWithPathRewrite", r,
                       proxyRequestWithPathRewrite(
                           r, getServiceURL(config, route.service),
                           route.targetPath, route.pathPrefix, b))

InitResp ==
    /\ config = Config(TRUE, AllConfigured)
    /\ route = DefaultRoute
    /\ Idle

NextResp == RespProxyWithPathRewrite \/ NextRequest

SpecResp == InitResp /\ [][NextResp]_vars

(* The whole core: every handler, on a working and on a broken         *)
(* configuration.                                                      *)

\* nothing configured: the identity provider's address has no scheme, no
\* backend has an upstream URL
BrokenConfig == Config(FALSE, [n \in ServiceNames |-> URLNone])

\* backend URLs that do not parse
UnparseableConfig == Config(TRUE, [n \in ServiceNames |-> URLBad])

InitCore ==
    /\ config \in {Config(TRUE, AllConfigured), BrokenConfig, UnparseableConfig}
    /\ route = DefaultRoute
    /\ Idle

NextCore ==
    \/ NextAuth
    \/ NextSvc
    \/ RespProxyWithPathRewrite
    \/ HdrDirectProxy

SpecCore == InitCore /\ [][NextCore]_vars

(* Concurrent requests through one ProxyToService handler. *)

\* the director's assignment targetPath = strings.Replace(...): it writes the
\* parameter of this proxyRequest call, a copy of the handler's template
DirectorMutantSharedTemplate(template, targetPath, id) ==
    [template |-> resolvePath(template, id),
     targetPath |-> resolvePath(template, id)]

directorAssign(template, targetPath, id) ==
    [template |-> template, targetPath |-> resolvePath(targetPath, id)]

\* one call of the handler returned by ProxyToService, step by step: the
\* call p.proxyRequest(c, serviceURL, targetPath) copies the template, the
\* director resolves the copy and sends it, the call returns
ConcProxyToService(s) ==
    \/ /\ inflight[s].pc = "idle"
       /\ getServiceURL(config, route.service) # ""
       /\ \E id \in Ids :
              inflight' = [inflight EXCEPT ![s] =
                  InflightCall("proxyRequest", id, route.targetPath, <<>>)]
       /\ UNCHANGED route
    \/ /\ inflight[s].pc = "proxyRequest"
       /\ LET d == directorAssign(route.targetPath, inflight[s].targetPath,
                                  inflight[s].id)
          IN /\ route' = [route EXCEPT !.targetPath = d.template]
             /\ inflight' = [inflight EXCEPT ![s] =
                    InflightCall("served", inflight[s].id, d.targetPath,
                                 d.targetPath)]
    \/ /\ inflight[s].pc = "served"
       /\ inflight' = [inflight EXCEPT ![s] = NoCall]
       /\ UNCHANGED route

\* the state of the settings handlers
settingsVars ==
    <<userPreferences, userPreferencesMu, committed, settingsCalls>>

InitConc ==
    /\ config = Config(TRUE, AllConfigured)
    /\ route \in {Route("hr-service", t) : t \in Templates}
    /\ Idle

NextConc ==
    \E s \in Slots :
        /\ ConcProxyToService(s)
        /\ UNCHANGED <<config, handler, authVars, written, proxyVars,
                       settingsVars>>

SpecConc == InitConc /\ [][NextConc]_vars

(* The settings handlers (settings.go), statement by statement. *)

\* the statements after RUnlock touch only the call's own variables and are
\* taken together with it
GetNotificationSettings(s) ==
    LET call == settingsCalls[s]
        u == call.userID[1]
    IN \/ /\ call.pc = "idle"
          /\ \E who \in {<<>>} \cup {<<x>> : x \in Users} :
                 settingsCalls' = [settingsCalls EXCEPT ![s] =
                     IF who = <<>>
                     THEN SettingsCall("Get", "done", who, {}, <<>>, NoUpdate,
                                       StatusUnauthorized)
                     ELSE SettingsCall("Get", "RLock", who, {}, <<>>, NoUpdate, 0)]
          /\ UNCHANGED <<userPreferences, userPreferencesMu, committed>>
       \/ /\ call.op = "Get" /\ call.pc = "RLock"
          /\ userPreferencesMu.writer = 0
          /\ userPreferencesMu' =
                 [userPreferencesMu EXCEPT !.readers = @ \cup {s}]
          /\ settingsCalls' = [settingsCalls EXCEPT ![s].pc = "read"]
          /\ UNCHANGED <<userPreferences, committed>>
       \/ /\ call.op = "Get" /\ call.pc = "read"
          /\ settingsCalls' = [settingsCalls EXCEPT
                 ![s].pc = "RUnlock", ![s].prefs = userPreferences[u],
                 ![s].expect = committed[u]]
          /\ UNCHANGED <<userPreferences, userPreferencesMu, committed>>
       \/ /\ call.op = "Get" /\ call.pc = "RUnlock"
          /\ userPreferencesMu' =
                 [userPreferencesMu EXCEPT !.readers = @ \ {s}]
          /\ settingsCalls' = [settingsCalls EXCEPT
                 ![s].pc = "done", ![s].status = StatusOK,
                 ![s].prefs = IF call.prefs = <<>>
                              THEN <<DefaultPreferences>> ELSE call.prefs]
          /\ UNCHANGED <<userPreferences, committed>>

\* the statement an update goes to after binding its body
UpdateMutantSkipLock == "store"

UpdateAfterBind == "Lock"

UpdateNotificationSettings(s) ==
    LET call == settingsCalls[s]
        u == call.userID[1]
    IN \/ /\ call.pc = "idle"
          /\ \E who \in {<<>>} \cup {<<x>> : x \in Users},
                bindOK \in BOOLEAN, body \in SubmittedPreferences :
                 settingsCalls' = [settingsCalls EXCEPT ![s] =
                     IF who = <<>>
                     THEN SettingsCall("Update", "done", who, {}, <<>>, NoUpdate,
                                       StatusUnauthorized)
                     ELSE IF ~bindOK
                     THEN SettingsCall("Update", "done", who, {}, <<>>, NoUpdate,
                                       StatusBadRequest)
                     ELSE SettingsCall("Update", UpdateAfterBind, who, body,
                                       <<>>, NoUpdate, 0)]
          /\ UNCHANGED <<userPreferences, userPreferencesMu, committed>>
       \/ /\ call.op = "Update" /\ call.pc = "Lock"
          /\ userPreferencesMu.writer = 0
          /\ userPreferencesMu.readers = {}
          /\ userPreferencesMu' = [userPreferencesMu EXCEPT !.writer = s]
          /\ settingsCalls' = [settingsCalls EXCEPT ![s].pc = "store"]
          /\ UNCHANGED <<userPreferences, committed>>
       \/ /\ call.op = "Update" /\ call.pc = "store"
          /\ userPreferences' = [userPreferences EXCEPT ![u] = <<call.body>>]
          /\ settingsCalls' = [settingsCalls EXCEPT ![s].pc = "Unlock"]
          /\ UNCHANGED <<userPreferencesMu, committed>>
       \/ /\ call.op = "Update" /\ call.pc = "Unlock"
          /\ userPreferencesMu' = [userPreferencesMu EXCEPT !.writer = 0]
          /\ committed' = [committed EXCEPT ![u].unlocked = <<call.body>>]
          /\ settingsCalls' = [settingsCalls EXCEPT ![s].pc = "respond"]
          /\ UNCHANGED userPreferences
       \/ /\ call.op = "Update" /\ call.pc = "respond"
          /\ settingsCalls' = [settingsCalls EXCEPT
                 ![s].pc = "done", ![s].status = StatusOK,
                 ![s].prefs = <<call.body>>]
          /\ committed' = [committed EXCEPT ![u].returned = <<call.body>>]
          /\ UNCHANGED <<userPreferences, userPreferencesMu>>

\* the handler function returns
SettingsReturn(s) ==
    /\ settingsCalls[s].pc = "done"
    /\ settingsCalls' = [settingsCalls EXCEPT ![s] = NoSettingsCall]
    /\ UNCHANGED <<userPreferences, userPreferencesMu, committed>>

InitSettings ==
    /\ config = Config(TRUE, AllConfigured)
    /\ route = DefaultRoute
    /\ Idle

NextSettings ==
    \E s \in Slots :
        /\ \/ GetNotificationSettings(s)
           \/ UpdateNotificationSettings(s)
           \/ SettingsReturn(s)
        /\ UNCHANGED <<config, route, handler, authVars, written, proxyVars,
                       inflight>>

SpecSettings == InitSettings /\ [][NextSettings]_vars

----------------------------------------------------------------------------
(* Properties of the delegated-session handlers. *)

LoginHandlers == {"Login", "LoginDelegated"}

\* the upstream answered the call the handler made
Answered == calls # <<>> /\ ~up.err

\* the response the handler ended with
LastWritten == written[Len(written)]

IsClearing(c) ==
    c.Name = SessionCookieName /\ c.Value = "" /\ c.MaxAge = -1

\* C1: every logout request, whatever happens on the way, ends
\* with HTTP 200 and a cookie-clearing Set-Cookie (empty value, MaxAge=-1)
\* for the configured session cookie name.
C1_LogoutUnconditional ==
    handler = "Logout" =>
        /\ written # <<>>
        /\ LastWritten.status = StatusOK
        /\ \E i \in 1..Len(setCookies) : IsClearing(setCookies[i])

\* C2: a login request that ends with an error response carries
\* no Set-Cookie header.
C2_NoCookieOnLoginError ==
    (handler \in LoginHandlers /\ written # <<>> /\ LastWritten.code # "") =>
        setCookies = <<>>

\* C3: whenever the first-factor call returns 401 the login
\* ends with INVALID_CREDENTIALS/401, and whenever it returns 200 the login
\* ends with success/200, whatever the upstream body holds.
C3_StatusAloneDecides ==
    (handler \in LoginHandlers /\ Answered) =>
        /\ up.status = StatusUnauthorized =>
               written = <<sendInvalidCredentialsError>>
        /\ up.status = StatusOK => written = <<Success>>

\* C4: for login's first-factor call and get-session's
\* user-info call, an upstream status that is neither 200 nor 401 ends with
\* AUTH_SERVICE_ERROR/500.
C4_UnexpectedStatusIsAuthServiceError ==
    (/\ handler \in LoginHandlers \cup {"GetSession"}
     /\ Answered
     /\ up.status \notin {StatusOK, StatusUnauthorized}) =>
        written = <<sendAuthServiceError>>

\* C5: a login request with a malformed body ends with
\* INVALID_REQUEST/400 and a get-session request without the session cookie
\* ends with UNAUTHORIZED/401, both with no call to the identity provider.
C5_LocalValidationFirst ==
    /\ (handler \in LoginHandlers /\ ~req.bodyOK) =>
           (written = <<sendInvalidRequestError>> /\ calls = <<>>)
    /\ (handler = "GetSession" /\ ~req.hasCookie) =>
           (written = <<sendUnauthorizedError>> /\ calls = <<>>)

\* C6: on a successful login every upstream Set-Cookie is forwarded, in
\* order; the cookie named as the session cookie gets Domain = session
\* domain, Path = "/", HttpOnly, SameSite = Lax and Secure = (inbound is
\* TLS), keeping its name, value and lifetime; every other cookie is
\* forwarded with all attributes unchanged.
C6_SessionCookieTranslation ==
    (handler \in LoginHandlers /\ written = <<Success>>) =>
        /\ Len(setCookies) = Len(up.cookies)
        /\ \A i \in 1..Len(up.cookies) :
               IF up.cookies[i].Name = SessionCookieName
               THEN /\ setCookies[i].Name = SessionCookieName
                    /\ setCookies[i].Value = up.cookies[i].Value
                    /\ setCookies[i].MaxAge = up.cookies[i].MaxAge
                    /\ setCookies[i].Domain = SessionDomain
                    /\ setCookies[i].Path = "/"
                    /\ setCookies[i].HttpOnly
                    /\ setCookies[i].SameSite = "Lax"
                    /\ setCookies[i].Secure = req.tls
               ELSE setCookies[i] = up.cookies[i]

C6_Witness ==
    /\ handler \in LoginHandlers
    /\ written = <<Success>>
    /\ Len(up.cookies) = 2
    /\ up.cookies[1].Name = SessionCookieName
    /\ up.cookies[1].Secure # req.tls
    /\ up.cookies[2].Name # SessionCookieName
    /\ setCookies[1].Domain = SessionDomain
    /\ setCookies[2] = up.cookies[2]

----------------------------------------------------------------------------
(* Properties of the proxy handlers. *)

\* a backend request was issued for the request being handled
Forwarded == handler # "none" /\ backend # <<>>

\* the header names a proxy path sets or removes on the outbound request,
\* hop-by-hop removal by the reverse proxy included
Rewritten(name, c) ==
    LET forwarding == {"X-Forwarded-For", "X-Forwarded-Proto", "X-Real-IP",
                       "Upgrade"}
    IN CASE name = "ProxyToService" ->
                forwarding
                    \cup (IF c.userID # <<>> /\ c.userID[1] # ""
                          THEN {"X-User-ID"} ELSE {})
                    \cup (IF c.email # <<>> /\ c.email[1] # ""
                          THEN {"X-User-Email"} ELSE {})
         [] name = "proxyRequestWithPathRewrite" ->
                forwarding \cup {"Accept-Encoding"}
         [] name = "ProxyBugsink" -> forwarding \cup {"X-Forwarded-Host"}
         [] OTHER -> {}

\* the names no proxy path ever sets or removes
EndToEnd ==
    HeaderNames \ {"X-Forwarded-For", "X-Forwarded-Proto", "X-Real-IP",
                   "Upgrade", "X-User-ID", "X-User-Email", "Accept-Encoding",
                   "X-Forwarded-Host"}

\* C7 as stated: the outbound request carries every inbound header with
\* exactly the inbound values, in order, on every proxy path and every hop.
C7_EveryHeaderForwarded ==
    Forwarded => \A k \in HeaderNames : backend[1].header[k] = pin.header[k]

\* C7 amended: a header the proxy path does not itself set or remove reaches
\* the backend with exactly the inbound values in order, and a header no path
\* sets or removes still has the client's values after any number of hops.
C7_UntouchedHeadersForwarded ==
    Forwarded =>
        /\ \A k \in HeaderNames \ Rewritten(handler, pin) :
               backend[1].header[k] = pin.header[k]
        /\ \A k \in EndToEnd : backend[1].header[k] = origin[k]

\* a two-valued header has crossed the gateway more than once
C7_Witness ==
    /\ Forwarded
    /\ hops >= 1
    /\ handler = "ProxyToService"
    /\ origin["X-Foo"] = <<"a", "b">>
    /\ backend[1].header["X-Foo"] = <<"a", "b">>
    /\ pin.header["X-Forwarded-For"] # <<>>

\* the template's segments with each segment that is exactly the placeholder
\* replaced by the id
RECURSIVE Substituted(_, _)
Substituted(segs, id) ==
    IF segs = <<>> THEN <<>>
    ELSE <<IF Head(segs) = PlaceholderId THEN id ELSE Head(segs)>>
             \o Substituted(Tail(segs), id)

\* the template has no placeholder but :id
OnlyDeclared(template) ==
    \A i \in DOMAIN Segments(template) :
        LET seg == Segments(template)[i]
        IN (seg # <<>> /\ Head(seg) = ":") => seg = PlaceholderId

\* C8: the resolved upstream path is the template with every occurrence of
\* :id replaced by the bound value and nothing else altered.
C8_EveryOccurrenceReplaced ==
    (Forwarded /\ handler = "ProxyToService"
         /\ OnlyDeclared(route.targetPath)) =>
        Segments(backend[1].path) =
            Substituted(Segments(route.targetPath), pin.id)

\* C9: a template segment that is another placeholder whose name begins with
\* id is left exactly as written in the resolved path.
C9_UndeclaredPlaceholderUntouched ==
    (Forwarded /\ handler = "ProxyToService") =>
        \A i \in DOMAIN Segments(route.targetPath) :
            LET seg == Segments(route.targetPath)[i]
            IN (HasPrefix(seg, PlaceholderId) /\ seg # PlaceholderId) =>
                   /\ i \in DOMAIN Segments(backend[1].path)
                   /\ Segments(backend[1].path)[i] = seg

\* the service whose upstream URL the handler looks up
ServiceOf == IF handler = "ProxyBugsink" THEN "bugsink" ELSE route.service

\* the handler is one of the four that look the service up, past the /api/
\* guard of ProxyWithWebSocket
LooksUpService ==
    \/ handler \in {"ProxyToService", "ProxyToExternalService", "ProxyBugsink"}
    \/ handler = "ProxyWithWebSocket" /\ ~HasPrefix(pin.path, ApiPrefix)

DirectorHandlers ==
    {"ProxyToService", "proxyRequestWithPathRewrite", "ProxyBugsink"}

\* the X-Forwarded-For value the director built: what was sent, less the
\* peer address the reverse proxy appended to it
DirectorForwardedFor ==
    LET sent == backend[1].header["X-Forwarded-For"][1]
    IN <<SubSeq(sent, 1, Len(sent) - 1)>>

\* getScheme's answer for a connection: https over TLS, http otherwise
DetectedScheme(c) == IF c.tls THEN "https" ELSE "http"

\* C11: on every outbound request built by a proxy director X-Forwarded-For
\* and X-Real-IP equal the client IP and X-Forwarded-Proto equals the scheme
\* detected for the inbound request, whatever the client supplied.
C11_ForwardingHeadersDetected ==
    (Forwarded /\ handler \in DirectorHandlers) =>
        /\ DirectorForwardedFor = <<<<pin.clientIP>>>>
        /\ backend[1].header["X-Real-IP"] = <<pin.clientIP>>
        /\ backend[1].header["X-Forwarded-Proto"] = <<DetectedScheme(pin)>>

\* the identity fact behind an identity header: <<>> if not set
IdentityFact(c, k) == IF k = "X-User-ID" THEN c.userID ELSE c.email

\* C12: the identity headers of an outbound request depend only on the
\* identity facts: each is present only when its fact is non-empty, then
\* equals it (proxyRequest sets it), and a request without identity facts
\* reaches the backend without them, whatever the client sent.
C12_IdentityHeadersFromFactsOnly ==
    (Forwarded /\ handler \in {"ProxyToService", "proxyRequestWithPathRewrite"}) =>
        \A k \in {"X-User-ID", "X-User-Email"} :
            LET fact == IdentityFact(pin, k)
                sent == backend[1].header[k]
            IN IF fact # <<>> /\ fact[1] # ""
               THEN /\ sent # <<>> => sent = fact
                    /\ handler = "ProxyToService" => sent = fact
               ELSE sent = <<>>

\* a path-rewritten response was relayed to the client
RelayedRewritten ==
    handler = "proxyRequestWithPathRewrite" /\ relayed # <<>>

BodyPatterns == {ActionPattern, HrefPattern, SrcPattern}

\* the body with the prefix inserted after the quote of every occurrence of
\* a pattern, read from left to right, and nothing else changed
RECURSIVE InsertedAfterQuote(_, _)
InsertedAfterQuote(body, pathPrefix) ==
    IF body = <<>> THEN <<>>
    ELSE IF \E pat \in BodyPatterns : HasPrefix(body, pat)
    THEN LET pat == CHOOSE q \in BodyPatterns : HasPrefix(body, q)
         IN Prefixed(pat, pathPrefix)
                \o InsertedAfterQuote(From(body, Len(pat)), pathPrefix)
    ELSE <<Head(body)>> \o InsertedAfterQuote(Tail(body), pathPrefix)

\* C13: for an HTML response proxied with path rewriting, every occurrence
\* of action="/, href="/ and src="/ has the prefix inserted after the quote,
\* nothing else changes, and the Content-Length header and the response's
\* content length equal the length of the rewritten body.
C13_HtmlBodyRewritten ==
    (RelayedRewritten /\ IsHTML(answer.contentType)) =>
        /\ relayed[1].body = InsertedAfterQuote(answer.body, route.pathPrefix)
        /\ relayed[1].contentLengthHeader = Len(relayed[1].body)
        /\ relayed[1].contentLength = Len(relayed[1].body)

\* a body with two occurrences was rewritten
C13_Witness ==
    /\ RelayedRewritten
    /\ IsHTML(answer.contentType)
    /\ answer.body = HrefPattern \o <<"x">> \o SrcPattern
    /\ Len(relayed[1].body) = Len(answer.body) + 2 * Len(route.pathPrefix)
    /\ relayed[1].contentLengthHeader = Len(answer.body) + 2 * Len(route.pathPrefix)

\* every path in an action=, href= or src= attribute of the body already
\* starts with the prefix
AllPrefixed(body, pathPrefix) ==
    \A i \in 1..Len(body) :
        \A pat \in BodyPatterns :
            HasPrefix(From(body, i - 1), pat) =>
                HasPrefix(From(body, i + Len(pat) - 2), pathPrefix)

\* C14: a path that already starts with the prefix, in the Location header
\* or in an action=, href= or src= attribute of an HTML body, is left
\* unchanged by the response transformer.
C14_NeverDoublePrefixed ==
    RelayedRewritten =>
        /\ HasPrefix(answer.location, route.pathPrefix) =>
               relayed[1].location = answer.location
        /\ (IsHTML(answer.contentType)
                /\ AllPrefixed(answer.body, route.pathPrefix)) =>
               relayed[1].body = answer.body

\* C15: the Location rewrite prepends the prefix exactly when the value
\* starts with "/" and does not start with the prefix, leaves every other
\* value unchanged, and rewriting a rewritten value changes nothing.
C15_LocationRewriteIdempotent ==
    RelayedRewritten =>
        /\ relayed[1].location =
               IF HasPrefix(answer.location, <<"/">>)
                      /\ ~HasPrefix(answer.location, route.pathPrefix)
               THEN route.pathPrefix \o answer.location
               ELSE answer.location
        /\ rewriteLocation(relayed[1].location, route.pathPrefix) =
               relayed[1].location

\* a Location outside the prefix was moved under it
C15_Witness ==
    /\ RelayedRewritten
    /\ answer.location = <<"/", "d">>
    /\ relayed[1].location = <<"/", "p", "/", "d">>

\* C16: when a text/html body cannot be read to the end, the request ends
\* with INTERNAL_ERROR, HTTP 500, and no rewritten body is sent.
C16_UnreadableBodyIsInternalError ==
    (/\ handler = "proxyRequestWithPathRewrite"
     /\ backend # <<>>
     /\ ~answer.neterr
     /\ IsHTML(answer.contentType)
     /\ ~answer.readOK) =>
        /\ written = <<sendInternalError>>
        /\ relayed = <<>>

\* the HTTP status of each error code of the taxonomy
StatusOfCode ==
    [code \in {"INVALID_REQUEST", "INVALID_CREDENTIALS", "UNAUTHORIZED",
               "NOT_FOUND", "AUTH_SERVICE_UNAVAILABLE", "AUTH_SERVICE_ERROR",
               "INTERNAL_ERROR"} |->
        CASE code = "INVALID_REQUEST" -> StatusBadRequest
          [] code \in {"INVALID_CREDENTIALS", "UNAUTHORIZED"} ->
                 StatusUnauthorized
          [] code = "NOT_FOUND" -> StatusNotFound
          [] code = "AUTH_SERVICE_UNAVAILABLE" -> StatusBadGateway
          [] OTHER -> StatusInternalServerError]

\* C17: every error code of the taxonomy is sent with its one HTTP status,
\* wherever it is produced.
C17_CodeHasOneStatus ==
    \A i \in DOMAIN written :
        written[i].code # "" =>
            /\ written[i].code \in DOMAIN StatusOfCode
            /\ written[i].status = StatusOfCode[written[i].code]

C19_ApiPathNotFound ==
    (handler = "ProxyWithWebSocket" /\ HasPrefix(pin.path, ApiPrefix)) =>
        /\ written = <<NotFoundError>>
        /\ backend = <<>>

\* an upgrade request under /api/ while the backend is not configured
C19_Witness ==
    /\ handler = "ProxyWithWebSocket"
    /\ HasPrefix(pin.path, ApiPrefix)
    /\ GetHeader(pin, "Upgrade") = "websocket"
    /\ getServiceURL(config, route.service) = ""
    /\ written = <<NotFoundError>>

\* C20: when a network failure occurs while contacting a backend, the
\* request ends with HTTP 502 whose body carries the error's detail, and the
\* call is not attempted again.
C20_NetworkFailureIsBadGateway ==
    (handler # "none" /\ backend # <<>> /\ answer.neterr) =>
        /\ Len(backend) = 1
        /\ Len(written) = 1
        /\ written[1].status = StatusBadGateway
        /\ written[1].details

\* the handlers that call the identity provider
SessionHandlers == {"Login", "LoginDelegated", "Logout", "GetSession"}

\* C21: when the request's context ends while the call to the identity
\* provider is in flight, the call is aborted and the handler writes no
\* response for the request.
C21_CancelledWritesNothing ==
    (handler \in SessionHandlers /\ calls # <<>> /\ up.cancelled) =>
        /\ Len(calls) = 1
        /\ written = <<>>
        /\ setCookies = <<>>

\* C22: on a successful login the user object returned to the browser
\* (username, name, email, groups) is the one of the identity provider's
\* response, not made from what the client submitted.
C22_IdentityFromUpstream ==
    (handler \in LoginHandlers /\ written = <<Success>> /\ up.user # <<>>) =>
        user = up.user

\* the i-th cookie sent to the browser is the i-th cookie of the identity
\* provider's response, with the value it issued
IssuedUpstream(i) ==
    /\ i <= Len(up.cookies)
    /\ up.cookies[i].Name = setCookies[i].Name
    /\ up.cookies[i].Value = setCookies[i].Value

\* C23 as stated: every session cookie sent by Login has the value the
\* identity provider issued in that login's response, and the only other
\* session-cookie value ever sent is the empty clearing value on logout.
C23_OnlyLoginValuesAndClearing ==
    \A i \in DOMAIN setCookies :
        setCookies[i].Name = SessionCookieName =>
            IF handler \in LoginHandlers THEN IssuedUpstream(i)
            ELSE handler = "Logout" /\ setCookies[i].Value = ""

\* C23 amended: every session cookie sent to the browser is sent by Login or
\* Logout and either has the value the identity provider issued in that
\* request's upstream response or is the empty clearing value of a logout.
C23_NoInventedSessionValue ==
    \A i \in DOMAIN setCookies :
        setCookies[i].Name = SessionCookieName =>
            \/ handler \in LoginHandlers \cup {"Logout"} /\ IssuedUpstream(i)
            \/ handler = "Logout" /\ IsClearing(setCookies[i])

\* a logout relayed the session cookie of the provider's logout response
\* and then cleared it
C23_Witness ==
    /\ handler = "Logout"
    /\ Len(up.cookies) = 1
    /\ up.cookies[1].Name = SessionCookieName
    /\ up.cookies[1].Value = "sid1"
    /\ Len(setCookies) = 2
    /\ setCookies[1].Value = "sid1"
    /\ IsClearing(setCookies[2])

\* the part of an e-mail address before its first "@"
RECURSIVE BeforeAt(_)
BeforeAt(email) ==
    IF email = <<>> \/ Head(email) = "@" THEN <<>>
    ELSE <<Head(email)>> \o BeforeAt(Tail(email))

\* C24: the username sent to the first-factor endpoint is the login e-mail
\* cut at its first "@", for every accepted login request; password,
\* keepMeLoggedIn and targetURL are passed on unchanged.
C24_UsernameIsLocalPart ==
    (handler \in LoginHandlers /\ calls # <<>>) =>
        /\ calls[1].username = BeforeAt(req.email)
        /\ calls[1].password = req.password
        /\ calls[1].keepMeLoggedIn = req.keepMeLoggedIn
        /\ calls[1].targetURL = req.targetURL

\* C25: on the standard proxy paths the outbound request keeps the inbound
\* raw query string as it is and its Host is the upstream's host, not the
\* inbound Host.
C25_QueryKeptHostRewritten ==
    (Forwarded /\ handler \in {"ProxyToService", "proxyRequestWithPathRewrite"}) =>
        /\ backend[1].rawQuery = pin.rawQuery
        /\ backend[1].host = HostOf(getServiceURL(config, route.service))
        /\ backend[1].host # pin.host

\* a request with a query that would not survive re-encoding was forwarded
C25_Witness ==
    /\ Forwarded
    /\ handler = "ProxyToService"
    /\ pin.host = "alt.example"
    /\ pin.rawQuery = "a=1&a=%zz;b"
    /\ backend[1].rawQuery = "a=1&a=%zz;b"
    /\ backend[1].host = "backend:8001"

\* C26: for the Bugsink integration the outbound Host is the inbound Host,
\* X-Forwarded-Host is set to that same Host, and the request is still sent
\* to the upstream's address.
C26_BugsinkKeepsHost ==
    (Forwarded /\ handler = "ProxyBugsink") =>
        /\ backend[1].host = pin.host
        /\ backend[1].header["X-Forwarded-Host"] = <<pin.host>>
        /\ backend[1].target = getServiceURL(config, "bugsink")

\* the client sent its own X-Forwarded-Host
C26_Witness ==
    /\ Forwarded
    /\ handler = "ProxyBugsink"
    /\ pin.header["X-Forwarded-Host"] = <<"spoofed.example">>
    /\ pin.host = "alt.example"
    /\ backend[1].host = "alt.example"
    /\ backend[1].header["X-Forwarded-Host"] = <<"alt.example">>
    /\ backend[1].target = URLGood

\* C28 as stated: the outbound request of a path-rewriting route carries no
\* Accept-Encoding header, whatever the inbound request had, and every other
\* inbound header is forwarded.
C28_OnlyAcceptEncodingDropped ==
    (Forwarded /\ handler = "proxyRequestWithPathRewrite") =>
        /\ backend[1].header["Accept-Encoding"] = <<>>
        /\ \A k \in HeaderNames \ {"Accept-Encoding"} :
               backend[1].header[k] = pin.header[k]

\* C28 amended: the outbound request of a path-rewriting route carries no
\* Accept-Encoding header, whatever the inbound request had, and every other
\* inbound header is forwarded except those the proxy sets itself
\* (X-Forwarded-For, X-Forwarded-Proto, X-Real-IP) or strips as hop-by-hop.
C28_AcceptEncodingRemoved ==
    (Forwarded /\ handler = "proxyRequestWithPathRewrite") =>
        /\ backend[1].header["Accept-Encoding"] = <<>>
        /\ \A k \in HeaderNames \ Rewritten(handler, pin) :
               backend[1].header[k] = pin.header[k]

\* a request with two Accept-Encoding values and a two-valued header
C28_Witness ==
    /\ Forwarded
    /\ handler = "proxyRequestWithPathRewrite"
    /\ pin.header["Accept-Encoding"] = <<"gzip", "br">>
    /\ pin.header["X-Foo"] = <<"a", "b">>
    /\ backend[1].header["Accept-Encoding"] = <<>>
    /\ backend[1].header["X-Foo"] = <<"a", "b">>

\* the value in lower case, for the values the requests carry
Lower(v) == IF v = "WebSocket" THEN "websocket" ELSE v

\* C27: every upgrade request to the fallback handler for a configured
\* service, its Upgrade header naming websocket in any letter case, is
\* answered 501 and never forwarded to the backend.
C27_UpgradeNotImplemented ==
    (/\ handler = "ProxyWithWebSocket"
     /\ ~HasPrefix(pin.path, ApiPrefix)
     /\ ParseOK(getServiceURL(config, route.service))
     /\ getServiceURL(config, route.service) # ""
     /\ Lower(GetHeader(pin, "Upgrade")) = "websocket") =>
        /\ written = <<LegacyError(StatusNotImplemented)>>
        /\ backend = <<>>

\* C29: handling a request never changes the path template of the handler,
\* so under any interleaving of requests with different ids through the same
\* handler each outbound path is the template resolved with that request's
\* own id.
C29_TemplateNotShared ==
    /\ [](\A s \in Slots :
             inflight[s].pc = "served" =>
                 inflight[s].path =
                     resolvePath(route.targetPath, inflight[s].id))
    /\ [][route' = route]_vars

\* two requests with different ids are in the handler at the same time and
\* both have been sent
C29_Witness ==
    /\ Contains(route.targetPath, PlaceholderId)
    /\ inflight[1].pc = "served"
    /\ inflight[2].pc = "served"
    /\ inflight[1].id # inflight[2].id
    /\ inflight[1].path # inflight[2].path
    /\ inflight[1].path = resolvePath(route.targetPath, inflight[1].id)

\* the map is read and written only by a call that holds the lock, and a
\* writer holds it alone
LockHeldAtAccess ==
    /\ \A s \in Slots :
           /\ settingsCalls[s].pc \in {"read", "RUnlock"} =>
                  s \in userPreferencesMu.readers
           /\ settingsCalls[s].pc \in {"store", "Unlock"} =>
                  userPreferencesMu.writer = s
    /\ userPreferencesMu.writer # 0 => userPreferencesMu.readers = {}

\* a Get answers with what the latest Update for its user that had returned
\* when the Get read the map stored, or with the defaults if there was none
GetSeesLatestReturned ==
    \A s \in Slots :
        LET call == settingsCalls[s]
        IN (call.op = "Get" /\ call.pc = "done" /\ call.status = StatusOK) =>
               call.prefs = IF call.expect.returned = <<>>
                            THEN <<DefaultPreferences>>
                            ELSE call.expect.returned

\* a Get answers with what the latest Update for its user that had released
\* the lock when the Get read the map stored, or with the defaults if there
\* was none
GetSeesLatestUnlocked ==
    \A s \in Slots :
        LET call == settingsCalls[s]
        IN (call.op = "Get" /\ call.pc = "done" /\ call.status = StatusOK) =>
               call.prefs = IF call.expect.unlocked = <<>>
                            THEN <<DefaultPreferences>>
                            ELSE call.expect.unlocked

\* a user's entry changes only by the store of an accepted Update for that user
OnlyOwnEntryChanges ==
    \A u \in Users :
        userPreferences'[u] # userPreferences[u] =>
            \E s \in Slots :
                /\ settingsCalls[s].op = "Update"
                /\ settingsCalls[s].pc = "store"
                /\ settingsCalls[s].userID = <<u>>
                /\ settingsCalls'[s].pc = "Unlock"
                /\ userPreferences'[u] = <<settingsCalls[s].body>>

\* C30 as stated: under any interleaving of Get and Update calls the
\* preference map is read and written only while its lock is held; a Get for
\* a user returns what the latest completed Update for that user stored, or
\* the defaults if none has completed; and an Update, or a request rejected
\* as unauthenticated or malformed, never changes another user's entry.
C30_GetSeesCompletedOnly ==
    /\ [](LockHeldAtAccess /\ GetSeesLatestReturned)
    /\ [][OnlyOwnEntryChanges]_vars

\* C30 amended: the same, with the Get returning what was stored by the
\* latest Update for the user that had finished its locked store when the
\* Get read the map, whether or not that Update has returned yet.
C30_PreferencesGuarded ==
    /\ [](LockHeldAtAccess /\ GetSeesLatestUnlocked)
    /\ [][OnlyOwnEntryChanges]_vars

\* a Get answered with what an Update stored while another user's update was
\* waiting for the lock or storing
C30_Witness ==
    /\ settingsCalls[1].op = "Get"
    /\ settingsCalls[1].pc = "done"
    /\ settingsCalls[1].userID = <<"u1">>
    /\ settingsCalls[1].prefs = <<{<<"email", TRUE>>, <<"push", FALSE>>}>>
    /\ settingsCalls[2].op = "Update"
    /\ settingsCalls[2].userID = <<"u2">>
    /\ settingsCalls[2].pc \in {"store", "Unlock"}
    /\ userPreferences["u2"] # userPreferences["u1"]

====
